---- MODULE Spec2Model ----
(***************************************************************************)
(* Model of server/app.py: the project-scoped file gateway.                *)
(*                                                                         *)
(* Paths are strings, handled character by character as the Python code    *)
(* handles them (lstrip, startswith, split, realpath).  The filesystem is  *)
(* a function from absolute path strings to nodes: directories, regular    *)
(* files (with a content) and symbolic links (with an absolute target).    *)
(* Each HTTP handler is one atomic action: the handlers of the approval    *)
(* flow and of the browsing API contain no await, so they run to their     *)
(* response without interleaving.  ask and ask/stream suspend at every     *)
(* await and yield; they are followed stage by stage in SpecAsk, and as    *)
(* one agent session that writes files in the other specifications.        *)
(***************************************************************************)
EXTENDS Integers, Sequences, FiniteSets, TLC

(***************************************************************************)
(* Bounds of the model.                                                    *)
(***************************************************************************)
\* File contents are the values 1..MaxContent.
MaxContent == 1
\* Agents perform at most MaxWrites writes in all.
MaxWrites == 1
\* The files that are compared by diff have at most MaxLines lines.
MaxLines == 2

(***************************************************************************)
(* Python string primitives.                                               *)
(***************************************************************************)
SEP == "/"

CharAt(s, i) == SubSeq(s, i, i)

DropFirst(s) == SubSeq(s, 2, Len(s))

\* str.startswith
StartsWith(s, prefix) ==
    /\ Len(prefix) <= Len(s)
    /\ SubSeq(s, 1, Len(prefix)) = prefix

\* str.lstrip("/")
RECURSIVE LStripSep(_)
LStripSep(s) ==
    IF Len(s) > 0 /\ CharAt(s, 1) = SEP THEN LStripSep(DropFirst(s)) ELSE s

\* str.rstrip("/")
RECURSIVE RStripSep(_)
RStripSep(s) ==
    IF Len(s) > 0 /\ CharAt(s, Len(s)) = SEP
    THEN RStripSep(SubSeq(s, 1, Len(s) - 1))
    ELSE s

\* str.replace("\\", "/")
RECURSIVE ReplaceBackslash(_)
ReplaceBackslash(s) ==
    IF Len(s) = 0 THEN ""
    ELSE (IF CharAt(s, 1) = "\\" THEN SEP ELSE CharAt(s, 1))
         \o ReplaceBackslash(DropFirst(s))

\* index of the first "/" in s, 0 when there is none (str.find + 1)
RECURSIVE FindSep(_, _)
FindSep(s, i) ==
    IF i > Len(s) THEN 0
    ELSE IF CharAt(s, i) = SEP THEN i
    ELSE FindSep(s, i + 1)

\* index of the last "/" in s, 0 when there is none (str.rfind + 1)
RECURSIVE RFindSep(_, _)
RFindSep(s, i) ==
    IF i < 1 THEN 0
    ELSE IF CharAt(s, i) = SEP THEN i
    ELSE RFindSep(s, i - 1)

HasSep(s) == FindSep(s, 1) > 0

\* str.split("/"): the sequence of components, empty ones included
RECURSIVE SplitSep(_)
SplitSep(s) ==
    LET i == FindSep(s, 1)
    IN  IF i = 0 THEN <<s>>
        ELSE <<SubSeq(s, 1, i - 1)>> \o SplitSep(SubSeq(s, i + 1, Len(s)))

\* s.split("/", 1)[1]: what follows the first "/"
AfterFirstSep(s) == SubSeq(s, FindSep(s, 1) + 1, Len(s))

\* max and min of two integers
Max(x, y) == IF x >= y THEN x ELSE y
Min(x, y) == IF x <= y THEN x ELSE y

(***************************************************************************)
(* posixpath primitives.                                                   *)
(***************************************************************************)
\* os.path.join(a, b)
PathJoin(a, b) ==
    IF StartsWith(b, SEP) THEN b
    ELSE IF a = "" \/ CharAt(a, Len(a)) = SEP THEN a \o b
    ELSE a \o SEP \o b

\* os.path.basename
Basename(p) == SubSeq(p, RFindSep(p, Len(p)) + 1, Len(p))

\* os.path.dirname
Dirname(p) ==
    LET head == SubSeq(p, 1, RFindSep(p, Len(p)))
    IN  IF head # "" /\ RStripSep(head) # "" THEN RStripSep(head) ELSE head

(***************************************************************************)
(* The filesystem: a function from absolute paths to nodes.                *)
(***************************************************************************)
DirNode == [kind |-> "dir"]
FileNode(c) == [kind |-> "file", content |-> c]
LinkNode(t) == [kind |-> "link", target |-> t]

\* os.path.lexists
LExists(fs, p) == p \in DOMAIN fs
IsLink(fs, p) == LExists(fs, p) /\ fs[p].kind = "link"

\* posixpath._joinrealpath, non-strict: walks the components `rest` from the
\* resolved prefix `path`; a component that is a symbolic link is replaced by
\* its (absolute) target, itself resolved.  `fuel` bounds the links followed
\* (the code keeps a `seen` table against loops).
RECURSIVE JoinRealpath(_, _, _, _)
JoinRealpath(fs, path, rest, fuel) ==
    IF rest = <<>> THEN path
    ELSE
        LET name == Head(rest)
            more == Tail(rest)
        IN  IF name = "" \/ name = "." THEN JoinRealpath(fs, path, more, fuel)
            ELSE IF name = ".."
                THEN JoinRealpath(fs, Dirname(path), more, fuel)
            ELSE
                LET newpath == PathJoin(path, name)
                IN  IF IsLink(fs, newpath) /\ fuel > 0
                    THEN JoinRealpath(fs,
                            JoinRealpath(fs, SEP, SplitSep(fs[newpath].target), fuel - 1),
                            more, fuel)
                    ELSE JoinRealpath(fs, newpath, more, fuel)

\* os.path.realpath of an absolute path
MaxLinks == 2
Realpath(fs, p) == JoinRealpath(fs, SEP, SplitSep(p), MaxLinks)

\* the node a path leads to, symbolic links followed (os.stat)
Resolve(fs, p) == IF LExists(fs, p) /\ ~IsLink(fs, p) THEN p ELSE Realpath(fs, p)

\* os.path.exists / isfile / isdir follow symbolic links
Exists(fs, p) == LExists(fs, Resolve(fs, p)) /\ ~IsLink(fs, Resolve(fs, p))
IsFile(fs, p) == Exists(fs, p) /\ fs[Resolve(fs, p)].kind = "file"
IsDir(fs, p) == Exists(fs, p) /\ fs[Resolve(fs, p)].kind = "dir"

(***************************************************************************)
(* Filesystem calls.  Each returns the new filesystem and, when the call   *)
(* raises, the name of the exception (err # "").                           *)
(***************************************************************************)
FsOk(fs) == [err |-> "", fs |-> fs]
FsErr(fs, e) == [err |-> e, fs |-> fs]

\* the one element of a singleton: { e(x) : x \in {v} } names the value v
\* once, as a local variable of the code does
Only(S) == CHOOSE x \in S : TRUE

\* os.mkdir(p), which load_manifest does not call: p must not exist, and
\* its parent must
Mkdir(fs, p) ==
    Only({
        IF LExists(fs, rp) THEN FsErr(fs, "FileExistsError")
        ELSE IF ~LExists(fs, Dirname(rp)) THEN FsErr(fs, "FileNotFoundError")
        ELSE IF fs[Dirname(rp)].kind # "dir" THEN FsErr(fs, "NotADirectoryError")
        ELSE FsOk((rp :> DirNode) @@ fs)
        : rp \in {Resolve(fs, p)}})

\* os.makedirs(p, exist_ok=True): creates the missing ancestors top-down, then p
RECURSIVE Makedirs(_, _)
Makedirs(fs, p) ==
    Only({
        IF LExists(fs, rp)
        THEN IF fs[rp].kind = "dir" THEN FsOk(fs) ELSE FsErr(fs, "FileExistsError")
        ELSE Only({
                IF up.err # "" THEN up
                ELSE IF up.fs[Dirname(rp)].kind # "dir"
                THEN FsErr(fs, "NotADirectoryError")
                ELSE FsOk((rp :> DirNode) @@ up.fs)
                : up \in {IF LExists(fs, Dirname(rp)) THEN FsOk(fs)
                          ELSE Makedirs(fs, Dirname(rp))}})
        : rp \in {Resolve(fs, p)}})

\* shutil.move(src, dst), which promote_file does not call: dst receives the
\* content and src is gone
MoveFile(fs, src, dst) ==
    Only({
        IF rs = rd THEN FsErr(fs, "SameFileError")
        ELSE IF ~IsFile(fs, rs)
            THEN FsErr(fs, IF IsDir(fs, rs) THEN "IsADirectoryError" ELSE "FileNotFoundError")
        ELSE IF IsDir(fs, rd) THEN FsErr(fs, "IsADirectoryError")
        ELSE IF ~LExists(fs, Dirname(rd)) THEN FsErr(fs, "FileNotFoundError")
        ELSE IF fs[Dirname(rd)].kind # "dir" THEN FsErr(fs, "NotADirectoryError")
        ELSE FsOk([q \in (DOMAIN fs \cup {rd}) \ {rs} |->
                      IF q = rd THEN FileNode(fs[rs].content) ELSE fs[q]])
        : rs \in {Resolve(fs, src)}, rd \in {Resolve(fs, dst)}})

\* shutil.copyfile(src, dst), then copystat: dst becomes a regular file with the
\* content of src
CopyFile(fs, src, dst) ==
    Only({
        IF rs = rd THEN FsErr(fs, "SameFileError")
        ELSE IF ~IsFile(fs, rs)
            THEN FsErr(fs, IF IsDir(fs, rs) THEN "IsADirectoryError" ELSE "FileNotFoundError")
        ELSE IF IsDir(fs, rd) THEN FsErr(fs, "IsADirectoryError")
        ELSE IF ~LExists(fs, Dirname(rd)) THEN FsErr(fs, "FileNotFoundError")
        ELSE IF fs[Dirname(rd)].kind # "dir" THEN FsErr(fs, "NotADirectoryError")
        ELSE FsOk((rd :> FileNode(fs[rs].content)) @@ fs)
        : rs \in {Resolve(fs, src)}, rd \in {Resolve(fs, dst)}})

\* shutil.copy2(src, dst): a dst that is a directory receives the file under
\* the base name of src
Copy2(fs, src, dst) ==
    IF IsDir(fs, dst)
    THEN CopyFile(fs, src, PathJoin(dst, Basename(src)))
    ELSE CopyFile(fs, src, dst)

\* the file that shutil.copy2(src, dst) writes
CopyTarget(fs, src, dst) ==
    Resolve(fs, IF IsDir(fs, dst) THEN PathJoin(dst, Basename(src)) ELSE dst)

\* a rename interrupted after the source has gone, which promote_file does
\* not do: OSError, the target holding no data yet
MoveInterrupted(fs, src, dst) ==
    Only({
        IF cp.err # "" THEN cp
        ELSE FsErr([q \in (DOMAIN fs \cup {CopyTarget(fs, src, dst)}) \ {Resolve(fs, src)} |->
                       IF q = CopyTarget(fs, src, dst) THEN FileNode([lines |-> <<>>])
                       ELSE fs[q]],
                   "OSError")
        : cp \in {Copy2(fs, src, dst)}})

\* shutil.copy2(src, dst) interrupted by the operating system (disk full):
\* copyfile has made its tests and opened the target for writing, so the
\* target exists and holds no data yet; OSError
CopyInterrupted(fs, src, dst) ==
    Only({
        IF cp.err # "" THEN cp
        ELSE FsErr((CopyTarget(fs, src, dst) :> FileNode([lines |-> <<>>])) @@ fs,
                   "OSError")
        : cp \in {Copy2(fs, src, dst)}})

\* os.makedirs(p, exist_ok=True) refused by the operating system when it
\* has a directory to create: OSError, nothing created
MakedirsRefused(fs, p) ==
    IF IsDir(fs, p) THEN Makedirs(fs, p) ELSE FsErr(fs, "OSError")

\* os.remove(p)
Remove(fs, p) ==
    IF ~LExists(fs, p) THEN FsErr(fs, "FileNotFoundError")
    ELSE IF fs[p].kind = "dir" THEN FsErr(fs, "IsADirectoryError")
    ELSE FsOk([q \in DOMAIN fs \ {p} |-> fs[q]])

(***************************************************************************)
(* Process-wide settings and paths (app.py, lines 28-37).                  *)
(***************************************************************************)
BASE_DIR == "/app"
PROJECTS_DIR == PathJoin(BASE_DIR, "projects")
PENDING_DIR == "output_pending"
DEFAULT_WRITE_DIR == "output"
MANIFEST_NAME == "manifest.json"

(***************************************************************************)
(* Utils.                                                                  *)
(***************************************************************************)
\* child == rp or child.startswith(rp + os.sep)
SubpathNoSep(child, rp) == child = rp \/ StartsWith(child, rp)
SubpathOf(child, rp) == child = rp \/ StartsWith(child, rp \o SEP)

\* _is_subpath(child, parents)
_is_subpath(fs, child, parents) ==
    \E rchild \in {Realpath(fs, child)} :
        \E i \in 1..Len(parents) : SubpathOf(rchild, Realpath(fs, parents[i]))

\* _safe_join(root, rel): ok = FALSE stands for HTTPException(400, "invalid path")
_safe_join(fs, root, rel) ==
    Only({[ok |-> SubpathOf(abspath, Realpath(fs, root)), path |-> abspath]
          : abspath \in {Realpath(fs, PathJoin(root, ReplaceBackslash(LStripSep(rel))))}})

\* re.fullmatch(r"[a-zA-Z0-9_\-]+", project_id)
IdChars == "abcdefghijklmnopqrstuvwxyzABCDEFGHIJKLMNOPQRSTUVWXYZ0123456789_-"
IdCharSet == {CharAt(IdChars, i) : i \in 1..Len(IdChars)}
IsIdChar(c) == c \in IdCharSet
SafeProjectId(project_id) ==
    /\ Len(project_id) > 0
    /\ \A i \in 1..Len(project_id) : IsIdChar(CharAt(project_id, i))

\* json.load of a manifest: the file content must be a JSON object
IsJsonObject(content) == "read_dirs" \in DOMAIN content

\* load_manifest(project_id) under the process-wide REQUIRE_APPROVAL flag.
\* status 200 stands for a normal return; m is the manifest then.
NoManifest ==
    [project_root |-> "", read_dirs_rel |-> <<>>, read_dirs_abs |-> <<>>,
     write_dir_rel |-> "", write_dir_abs |-> "", final_write_rel |-> ""]
ManifestRaise(fs, status, detail) ==
    [status |-> status, detail |-> detail, fs |-> fs, m |-> NoManifest]
ManifestOf(fs, require_approval, project_root, c) ==
    Only({
        Only({
            IF md.err # "" THEN ManifestRaise(fs, 500, md.err)
            ELSE [status |-> 200, detail |-> "", fs |-> md.fs,
                  m |-> [project_root |-> project_root,
                         read_dirs_rel |-> c.read_dirs,
                         read_dirs_abs |->
                            [i \in 1..Len(c.read_dirs) |->
                                PathJoin(project_root, c.read_dirs[i])],
                         write_dir_rel |-> write_dir_rel,
                         write_dir_abs |-> PathJoin(project_root, write_dir_rel),
                         final_write_rel |-> final_write_rel]]
            : md \in {Makedirs(fs, PathJoin(project_root, write_dir_rel))}})
        : final_write_rel \in
            {IF "write_dir" \in DOMAIN c THEN c.write_dir ELSE DEFAULT_WRITE_DIR},
          write_dir_rel \in
            {IF require_approval THEN PENDING_DIR
             ELSE IF "write_dir" \in DOMAIN c THEN c.write_dir ELSE DEFAULT_WRITE_DIR}})

load_manifest(fs, require_approval, project_id) ==
    IF ~SafeProjectId(project_id)
    THEN ManifestRaise(fs, 400, "invalid project_id")
    ELSE Only({
            IF ~Exists(fs, manifest_path)
            THEN ManifestRaise(fs, 404, "manifest not found")
            ELSE IF ~IsFile(fs, manifest_path)
            THEN ManifestRaise(fs, 500, "IsADirectoryError")
            ELSE IF ~IsJsonObject(fs[Resolve(fs, manifest_path)].content)
            THEN ManifestRaise(fs, 500, "JSONDecodeError")
            ELSE ManifestOf(fs, require_approval, PathJoin(PROJECTS_DIR, project_id),
                            fs[Resolve(fs, manifest_path)].content)
            : manifest_path \in
                {PathJoin(PathJoin(PROJECTS_DIR, project_id), MANIFEST_NAME)}})

(***************************************************************************)
(* Ordering of strings, for list.sort: Python compares by code point.      *)
(***************************************************************************)
CodePoints == "-.0123456789ABCDEFGHIJKLMNOPQRSTUVWXYZ\\_abcdefghijklmnopqrstuvwxyz"
UpperChars == "ABCDEFGHIJKLMNOPQRSTUVWXYZ"
LowerChars == "abcdefghijklmnopqrstuvwxyz"

RECURSIVE IndexIn(_, _, _)
IndexIn(alphabet, c, i) ==
    IF i > Len(alphabet) THEN 0
    ELSE IF CharAt(alphabet, i) = c THEN i
    ELSE IndexIn(alphabet, c, i + 1)

\* str.lower
RECURSIVE Lower(_)
Lower(s) ==
    IF Len(s) = 0 THEN ""
    ELSE LET u == IndexIn(UpperChars, CharAt(s, 1), 1)
         IN  (IF u > 0 THEN CharAt(LowerChars, u) ELSE CharAt(s, 1))
             \o Lower(DropFirst(s))

\* a < b on strings
RECURSIVE StrLess(_, _)
StrLess(a, b) ==
    IF Len(b) = 0 THEN FALSE
    ELSE IF Len(a) = 0 THEN TRUE
    ELSE LET x == IndexIn(CodePoints, CharAt(a, 1), 1)
             y == IndexIn(CodePoints, CharAt(b, 1), 1)
         IN  IF x # y THEN x < y ELSE StrLess(DropFirst(a), DropFirst(b))

(***************************************************************************)
(* FS APIs (list / preview).                                               *)
(***************************************************************************)
IGNORE_NAMES == {".git", "node_modules", ".venv", "__pycache__", "dist", "build", ".DS_Store"}

Ignored(name) == name \in IGNORE_NAMES \/ StartsWith(name, ".")

NoContent == [lines |-> <<>>]

\* A handler's outcome: the filesystem it leaves and its HTTP response.
\* status 500 stands for an exception no handler catches.
Outcome(fs, status, detail) ==
    [fs |-> fs, status |-> status, detail |-> detail, out |-> "",
     content |-> NoContent, items |-> <<>>, a |-> <<>>, b |-> <<>>,
     src |-> "", dst |-> ""]

\* roots_rel: the read dirs, then the write dir when it is not among them
RootsRel(m) ==
    IF \E i \in 1..Len(m.read_dirs_rel) : m.read_dirs_rel[i] = m.write_dir_rel
    THEN m.read_dirs_rel
    ELSE Append(m.read_dirs_rel, m.write_dir_rel)

RootsAbs(m) ==
    [i \in 1..Len(RootsRel(m)) |-> PathJoin(m.project_root, RootsRel(m)[i])]

\* the sort key of list_fs: (type != "dir", name.lower())
ItemLess(a, b) ==
    IF (a.type # "dir") # (b.type # "dir") THEN a.type = "dir"
    ELSE StrLess(Lower(a.name), Lower(b.name))

\* items.sort(key=...): the items of a set in the order of the key
RECURSIVE SortItems(_)
SortItems(S) ==
    IF S = {} THEN <<>>
    ELSE LET first == CHOOSE a \in S : \A b \in S \ {a} : ~ItemLess(b, a)
         IN  <<first>> \o SortItems(S \ {first})

\* os.scandir(p): the entries of directory p
Scandir(fs, p) == {q \in DOMAIN fs : q # p /\ Dirname(q) = p}

\* the items of the roots that exist (list_fs without a path)
RootItems(fs, m) ==
    SelectSeq([i \in 1..Len(RootsRel(m)) |->
                  [name |-> Basename(RootsRel(m)[i]),
                   rel |-> RootsRel(m)[i], type |-> "dir"]],
              LAMBDA it : Exists(fs, PathJoin(m.project_root, it.rel)))

\* the items of directory abs_target, ignored names left out, sorted
DirItems(fs, path, abs_target) ==
    SortItems({[name |-> Basename(q),
                rel |-> ReplaceBackslash(PathJoin(path, Basename(q))),
                type |-> IF fs[q].kind = "dir" THEN "dir" ELSE "file"]
               : q \in {e \in Scandir(fs, abs_target) : ~Ignored(Basename(e))}})

\* get_project(project_id): content is the project as returned
get_project(fs, require_approval, project_id) ==
    Only({
        IF lm.status # 200 THEN Outcome(lm.fs, lm.status, lm.detail)
        ELSE [Outcome(lm.fs, 200, "") EXCEPT
                !.content = [id |-> project_id,
                             read_dirs |-> lm.m.read_dirs_rel,
                             write_dir |-> lm.m.write_dir_rel,
                             final_write_dir |-> lm.m.final_write_rel,
                             require_approval |-> require_approval]]
        : lm \in {load_manifest(fs, require_approval, project_id)}})

\* list_fs(project_id, path); path = "" stands for no path
list_fs(fs, require_approval, project_id, path) ==
    Only({
        IF lm.status # 200 THEN Outcome(lm.fs, lm.status, lm.detail)
        ELSE IF path = ""
        THEN [Outcome(lm.fs, 200, "") EXCEPT !.items = RootItems(lm.fs, lm.m)]
        ELSE Only({
                IF ~sj.ok THEN Outcome(lm.fs, 400, "invalid path")
                ELSE IF ~_is_subpath(lm.fs, sj.path, RootsAbs(lm.m))
                THEN Outcome(lm.fs, 403, "path not allowed")
                ELSE IF ~IsDir(lm.fs, sj.path)
                THEN Outcome(lm.fs, 400, "not a directory")
                ELSE [Outcome(lm.fs, 200, "") EXCEPT
                        !.src = sj.path,
                        !.items = DirItems(lm.fs, path, sj.path)]
                : sj \in {_safe_join(lm.fs, lm.m.project_root, path)}})
        : lm \in {load_manifest(fs, require_approval, project_id)}})

\* get_file(project_id, path).  The contents of the model are texts below
\* MAX_PREVIEW_BYTES, so the preview is the whole content.
get_file(fs, require_approval, project_id, path) ==
    IF path = "" THEN Outcome(fs, 400, "path required")
    ELSE Only({
        IF lm.status # 200 THEN Outcome(lm.fs, lm.status, lm.detail)
        ELSE Only({
                IF ~sj.ok THEN Outcome(lm.fs, 400, "invalid path")
                ELSE IF ~_is_subpath(lm.fs, sj.path, RootsAbs(lm.m))
                THEN Outcome(lm.fs, 403, "path not allowed")
                ELSE IF ~IsFile(lm.fs, sj.path)
                THEN Outcome(lm.fs, 404, "not a file")
                ELSE [Outcome(lm.fs, 200, "") EXCEPT
                        !.src = sj.path,
                        !.out = Basename(sj.path),
                        !.content = lm.fs[sj.path].content]
                : sj \in {_safe_join(lm.fs, lm.m.project_root, path)}})
        : lm \in {load_manifest(fs, require_approval, project_id)}})

(***************************************************************************)
(* search_files.  os.walk visits a directory top-down: the entries of       *)
(* os.scandir are split into directories (links to directories included)   *)
(* and other files, in the order the filesystem yields them; the handler   *)
(* prunes the ignored directories and examines the names; os.walk then     *)
(* descends into the directories kept, those that are links excepted.      *)
(* The walk state st holds the results, the entries examined so far and    *)
(* done, set by the return as soon as the results reach the cap.           *)
(***************************************************************************)
\* the largest number of results of a search
SEARCH_CAP == 1000

\* a cap that one result too many reaches
SearchCapExceeded(limit) == Max(1, Min(limit, SEARCH_CAP)) + 1

\* max(1, min(limit, 1000))
SearchCap(limit) == Max(1, Min(limit, SEARCH_CAP))

\* sub in s
Contains(s, sub) ==
    \E i \in 1..(Len(s) - Len(sub) + 1) : SubSeq(s, i, i + Len(sub) - 1) = sub

\* os.path.relpath(p, root) of a path p below root
Relpath(p, root) ==
    IF StartsWith(p, root \o SEP) THEN SubSeq(p, Len(root) + 2, Len(p)) ELSE p

\* the names of a set in the order the filesystem yields them: by name,
\* ascending or descending
RECURSIVE InOrder(_, _)
InOrder(names, order) ==
    IF names = {} THEN <<>>
    ELSE Only({ <<first>> \o InOrder(names \ {first}, order)
                : first \in {CHOOSE a \in names : \A b \in names \ {a} :
                                IF order = "ascending" THEN StrLess(a, b)
                                ELSE StrLess(b, a)}})

\* dirnames and filenames of os.walk for directory dirpath
WalkDirnames(fs, dirpath, order) ==
    InOrder({Basename(e) : e \in {x \in Scandir(fs, dirpath) : IsDir(fs, x)}}, order)
WalkFilenames(fs, dirpath, order) ==
    InOrder({Basename(e) : e \in {x \in Scandir(fs, dirpath) : ~IsDir(fs, x)}}, order)

\* dirnames[:] = [d for d in dirnames if d not in IGNORE_NAMES and not d.startswith(".")]
Pruned(dirnames) == SelectSeq(dirnames, LAMBDA d : ~Ignored(d))

\* the body of "for name in dirnames + filenames" for one name
Examine(fs, rq, dirpath, name, st) ==
    IF Ignored(name) \/ ~Contains(Lower(name), rq.ql)
    THEN [st EXCEPT !.visited = Append(@, PathJoin(dirpath, name))]
    ELSE [results |-> Append(st.results,
                        [name |-> name,
                         rel |-> ReplaceBackslash(
                                    Relpath(PathJoin(dirpath, name), rq.project_root)),
                         type |-> IF IsDir(fs, PathJoin(dirpath, name))
                                  THEN "dir" ELSE "file"]),
          visited |-> Append(st.visited, PathJoin(dirpath, name)),
          done |-> Len(st.results) + 1 >= SearchCap(rq.limit)]

RECURSIVE ScanNames(_, _, _, _, _)
ScanNames(fs, rq, dirpath, names, st) ==
    IF names = <<>> \/ st.done THEN st
    ELSE Only({ ScanNames(fs, rq, dirpath, Tail(names), next)
                : next \in {Examine(fs, rq, dirpath, names[1], st)}})

RECURSIVE WalkDir(_, _, _, _)
RECURSIVE WalkDirs(_, _, _, _, _)
\* os.walk from dirpath on, with the loop body of the handler
WalkDir(fs, rq, dirpath, st) ==
    IF st.done THEN st
    ELSE Only({
            Only({ WalkDirs(fs, rq, dirpath, dn, scanned)
                   : scanned \in {ScanNames(fs, rq, dirpath,
                                    dn \o WalkFilenames(fs, dirpath, rq.order), st)}})
            : dn \in {Pruned(WalkDirnames(fs, dirpath, rq.order))}})

WalkDirs(fs, rq, dirpath, dirnames, st) ==
    IF dirnames = <<>> \/ st.done THEN st
    ELSE Only({ WalkDirs(fs, rq, dirpath, Tail(dirnames), next)
                : next \in {IF IsLink(fs, PathJoin(dirpath, dirnames[1])) THEN st
                            ELSE WalkDir(fs, rq, PathJoin(dirpath, dirnames[1]), st)}})

\* for r_abs, r_rel in zip(roots_abs, roots_rel)
RECURSIVE WalkRoots(_, _, _, _)
WalkRoots(fs, rq, roots_rel, st) ==
    IF roots_rel = <<>> \/ st.done THEN st
    ELSE Only({ WalkRoots(fs, rq, Tail(roots_rel), next)
                : next \in {IF Exists(fs, PathJoin(rq.project_root, roots_rel[1]))
                            THEN WalkDir(fs, rq,
                                    PathJoin(rq.project_root, roots_rel[1]), st)
                            ELSE st}})

\* search_files(project_id, q, limit), the filesystem yielding names in the
\* given order: items are the results, a the entries examined
search_files(fs, require_approval, project_id, q, limit, order) ==
    IF q = "" THEN Outcome(fs, 200, "")
    ELSE Only({
        IF lm.status # 200 THEN Outcome(lm.fs, lm.status, lm.detail)
        ELSE Only({ [Outcome(lm.fs, 200, "") EXCEPT !.items = st.results,
                                                   !.a = st.visited]
                    : st \in {WalkRoots(lm.fs,
                                [ql |-> Lower(q), limit |-> limit, order |-> order,
                                 project_root |-> lm.m.project_root],
                                RootsRel(lm.m),
                                [results |-> <<>>, visited |-> <<>>, done |-> FALSE])}})
        : lm \in {load_manifest(fs, require_approval, project_id)}})

(***************************************************************************)
(* Approval flow: promote / delete staged / diff.                          *)
(***************************************************************************)
\* the staged path must start with the write dir: from_rel.startswith(W + "/")
StagedPrefixOk(from_rel, m) == StartsWith(from_rel, m.write_dir_rel \o SEP)

\* suffix = from_rel.split("/", 1)[1] if "/" in from_rel else basename(from_rel)
StagedSuffix(from_rel) ==
    IF HasSep(from_rel) THEN AfterFirstSep(from_rel) ELSE Basename(from_rel)

\* to_rel = f"{m['_final_write_rel']}/{suffix}"
DefaultDest(from_rel, m) == m.final_write_rel \o SEP \o StagedSuffix(from_rel)

\* the points at which the operating system may fail a promote: nowhere,
\* in os.makedirs, in shutil.copy2
Faults == {"none", "makedirs", "copy"}

\* promote_file from os.makedirs on: src_abs is a file, dst_abs is inside the
\* project root
PromoteCopy(fs, src_abs, to_rel, dst_abs, overwrite, fault) ==
    Only({
        IF md.err # "" THEN Outcome(md.fs, 500, md.err)
        ELSE IF Exists(md.fs, dst_abs) /\ ~overwrite
        THEN [Outcome(md.fs, 409, "destination exists") EXCEPT
                !.src = src_abs, !.dst = dst_abs]
        ELSE Only({
                IF cp.err # ""
                THEN [Outcome(cp.fs, 500, cp.err) EXCEPT
                        !.src = src_abs, !.dst = dst_abs]
                ELSE [Outcome(cp.fs, 200, "") EXCEPT
                        !.out = to_rel, !.src = src_abs, !.dst = dst_abs]
                : cp \in {IF fault = "copy"
                          THEN CopyInterrupted(md.fs, src_abs, dst_abs)
                          ELSE Copy2(md.fs, src_abs, dst_abs)}})
        : md \in {IF fault = "makedirs"
                  THEN MakedirsRefused(fs, Dirname(dst_abs))
                  ELSE Makedirs(fs, Dirname(dst_abs))}})

\* promote_file(project_id, body); to_rel = "" stands for no to_rel, and
\* fault is where the operating system fails the call
promote_file(fs, require_approval, project_id, from_rel_in, to_rel_in, overwrite, fault) ==
    Only({
        IF lm.status # 200 THEN Outcome(lm.fs, lm.status, lm.detail)
        ELSE IF ~StagedPrefixOk(from_rel, lm.m)
        THEN Outcome(lm.fs, 400, "from_rel must start with write dir")
        ELSE Only({
                IF ~sj.ok THEN Outcome(lm.fs, 400, "invalid path")
                ELSE IF ~IsFile(lm.fs, sj.path)
                THEN Outcome(lm.fs, 404, "staged file not found")
                ELSE Only({
                        Only({
                            IF ~dj.ok THEN Outcome(lm.fs, 400, "invalid path")
                            ELSE PromoteCopy(lm.fs, sj.path, to_rel, dj.path, overwrite,
                                             fault)
                            : dj \in {_safe_join(lm.fs, lm.m.project_root, to_rel)}})
                        : to_rel \in {IF to_rel_in # "" THEN LStripSep(to_rel_in)
                                      ELSE DefaultDest(from_rel, lm.m)}})
                : sj \in {_safe_join(lm.fs, lm.m.project_root, from_rel)}})
        : lm \in {load_manifest(fs, require_approval, project_id)},
          from_rel \in {LStripSep(from_rel_in)}})

\* delete_staged(project_id, path)
delete_staged(fs, require_approval, project_id, path) ==
    Only({
        IF lm.status # 200 THEN Outcome(lm.fs, lm.status, lm.detail)
        ELSE IF ~StagedPrefixOk(rel, lm.m)
        THEN Outcome(lm.fs, 400, "path must start with write dir")
        ELSE Only({
                IF ~sj.ok THEN Outcome(lm.fs, 400, "invalid path")
                ELSE IF IsFile(lm.fs, sj.path)
                THEN [Outcome(Remove(lm.fs, sj.path).fs, 200, "") EXCEPT
                        !.out = rel, !.src = sj.path]
                ELSE Outcome(lm.fs, 404, "not found")
                : sj \in {_safe_join(lm.fs, lm.m.project_root, rel)}})
        : lm \in {load_manifest(fs, require_approval, project_id)},
          rel \in {LStripSep(path)}})

\* _read_lines(p): the lines of the file, none when p does not exist
ContentLines(content) ==
    IF "lines" \in DOMAIN content THEN content.lines ELSE <<"{json}">>
ReadLines(fs, p) == IF Exists(fs, p) THEN ContentLines(fs[p].content) ELSE <<>>

(***************************************************************************)
(* difflib.unified_diff(a, b, fromfile, tofile, lineterm=""), as get_diff   *)
(* calls it: SequenceMatcher without junk, n = 3 lines of context.  Indexes *)
(* are those of the Python code: 0-based, ranges half-open.                *)
(***************************************************************************)
\* a[i:i+k] == b[j:j+k]
MatchAt(a, b, i, j, k) == \A d \in 0..(k - 1) : a[i + d + 1] = b[j + d + 1]

\* the blocks a[i:i+k] == b[j:j+k], k > 0, within a[alo:ahi] and b[blo:bhi]
Matches(a, b, alo, ahi, blo, bhi) ==
    {m \in (alo..(ahi - 1)) \X (blo..(bhi - 1)) \X (1..(ahi - alo)) :
        m[1] + m[3] <= ahi /\ m[2] + m[3] <= bhi /\ MatchAt(a, b, m[1], m[2], m[3])}

\* SequenceMatcher.find_longest_match: the longest block, of the longest the
\* one that starts earliest in a, of those the one that starts earliest in b;
\* (alo, blo, 0) when nothing matches
find_longest_match(a, b, alo, ahi, blo, bhi) ==
    Only({
        IF ms = {} THEN <<alo, blo, 0>>
        ELSE CHOOSE m \in ms : \A o \in ms :
                \/ m[3] > o[3]
                \/ m[3] = o[3] /\ m[1] < o[1]
                \/ m[3] = o[3] /\ m[1] = o[1] /\ m[2] <= o[2]
        : ms \in {Matches(a, b, alo, ahi, blo, bhi)}})

\* SequenceMatcher.get_matching_blocks, before the sentinel: the longest
\* match, then the same to its left and to its right, in increasing order
RECURSIVE MatchingBlocks(_, _, _, _, _, _)
MatchingBlocks(a, b, alo, ahi, blo, bhi) ==
    Only({
        IF m[3] = 0 THEN <<>>
        ELSE (IF alo < m[1] /\ blo < m[2]
              THEN MatchingBlocks(a, b, alo, m[1], blo, m[2]) ELSE <<>>)
             \o <<m>>
             \o (IF m[1] + m[3] < ahi /\ m[2] + m[3] < bhi
                 THEN MatchingBlocks(a, b, m[1] + m[3], ahi, m[2] + m[3], bhi)
                 ELSE <<>>)
        : m \in {find_longest_match(a, b, alo, ahi, blo, bhi)}})

get_matching_blocks(a, b) ==
    MatchingBlocks(a, b, 0, Len(a), 0, Len(b)) \o <<<<Len(a), Len(b), 0>>>>

Opcode(tag, i1, i2, j1, j2) == [tag |-> tag, i1 |-> i1, i2 |-> i2, j1 |-> j1, j2 |-> j2]

\* SequenceMatcher.get_opcodes: what turns a into b, block after block
RECURSIVE Opcodes(_, _, _)
Opcodes(blocks, i, j) ==
    IF blocks = <<>> THEN <<>>
    ELSE LET ai == blocks[1][1]
             bj == blocks[1][2]
             size == blocks[1][3]
         IN  (IF i < ai /\ j < bj THEN <<Opcode("replace", i, ai, j, bj)>>
              ELSE IF i < ai THEN <<Opcode("delete", i, ai, j, bj)>>
              ELSE IF j < bj THEN <<Opcode("insert", i, ai, j, bj)>>
              ELSE <<>>)
             \o (IF size > 0
                 THEN <<Opcode("equal", ai, ai + size, bj, bj + size)>> ELSE <<>>)
             \o Opcodes(Tail(blocks), ai + size, bj + size)

get_opcodes(a, b) == Opcodes(get_matching_blocks(a, b), 0, 0)

\* the lines of context of unified_diff (its default n)
CONTEXT == 3

\* SequenceMatcher.get_grouped_opcodes(n): the opcodes, or one empty "equal"
\* when there are none, the equal ranges at both ends cut to n lines.  An
\* inner equal range splits the group when it is longer than 2n lines, which
\* takes files of more than 2n lines: the files of the model are shorter, so
\* there is one group.
TrimFirst(codes) ==
    IF codes[1].tag = "equal"
    THEN [codes EXCEPT ![1] = Opcode("equal", Max(codes[1].i1, codes[1].i2 - CONTEXT),
                                     codes[1].i2,
                                     Max(codes[1].j1, codes[1].j2 - CONTEXT),
                                     codes[1].j2)]
    ELSE codes

TrimLast(codes) ==
    IF codes[Len(codes)].tag = "equal"
    THEN [codes EXCEPT ![Len(codes)] =
            Opcode("equal", codes[Len(codes)].i1,
                   Min(codes[Len(codes)].i2, codes[Len(codes)].i1 + CONTEXT),
                   codes[Len(codes)].j1,
                   Min(codes[Len(codes)].j2, codes[Len(codes)].j1 + CONTEXT))]
    ELSE codes

get_grouped_opcodes(a, b) ==
    Only({
        TrimLast(TrimFirst(IF codes = <<>> THEN <<Opcode("equal", 0, 1, 0, 1)>>
                           ELSE codes))
        : codes \in {get_opcodes(a, b)}})

\* _format_range_unified(start, stop)
FormatRange(start, stop) ==
    IF stop - start = 1 THEN ToString(start + 1)
    ELSE IF stop - start = 0 THEN ToString(start) \o "," \o ToString(0)
    ELSE ToString(start + 1) \o "," \o ToString(stop - start)

\* the lines with a one-character prefix
Prefixed(prefix, lines) == [i \in 1..Len(lines) |-> prefix \o lines[i]]

\* the lines unified_diff yields for one opcode
OpcodeLines(a, b, op) ==
    IF op.tag = "equal" THEN Prefixed(" ", SubSeq(a, op.i1 + 1, op.i2))
    ELSE (IF op.tag \in {"replace", "delete"}
          THEN Prefixed("-", SubSeq(a, op.i1 + 1, op.i2)) ELSE <<>>)
         \o (IF op.tag \in {"replace", "insert"}
             THEN Prefixed("+", SubSeq(b, op.j1 + 1, op.j2)) ELSE <<>>)

RECURSIVE GroupLines(_, _, _)
GroupLines(a, b, group) ==
    IF group = <<>> THEN <<>>
    ELSE OpcodeLines(a, b, group[1]) \o GroupLines(a, b, Tail(group))

\* the lines of the unified diff: nothing when a group is a lone "equal", else
\* the two file headers, the hunk header and the lines of the opcodes
DiffLines(a, b, fromfile, tofile) ==
    Only({
        IF Len(g) = 1 /\ g[1].tag = "equal" THEN <<>>
        ELSE <<"--- " \o fromfile, "+++ " \o tofile,
               "@@ -" \o FormatRange(g[1].i1, g[Len(g)].i2)
                   \o " +" \o FormatRange(g[1].j1, g[Len(g)].j2) \o " @@">>
             \o GroupLines(a, b, g)
        : g \in {get_grouped_opcodes(a, b)}})

\* difflib.unified_diff with the arguments in the other order: what removes
\* the staged lines instead of adding them
unified_diff_reversed(a, b, fromfile, tofile) == DiffLines(b, a, tofile, fromfile)

\* difflib.unified_diff(a, b, fromfile=..., tofile=..., lineterm="")
unified_diff(a, b, fromfile, tofile) == DiffLines(a, b, fromfile, tofile)

\* "\n".join(lines)
NL == "\n"
RECURSIVE JoinLines(_)
JoinLines(lines) ==
    IF lines = <<>> THEN ""
    ELSE IF Len(lines) = 1 THEN lines[1]
    ELSE lines[1] \o NL \o JoinLines(Tail(lines))

\* get_diff(project_id, from_rel, to_rel): out is the fromfile label (the
\* destination), a its lines, b the staged lines, src and dst the files
\* read, content the "diff" of the response
get_diff(fs, require_approval, project_id, from_rel_in, to_rel_in) ==
    Only({
        IF lm.status # 200 THEN Outcome(lm.fs, lm.status, lm.detail)
        ELSE IF ~StagedPrefixOk(from_rel, lm.m)
        THEN Outcome(lm.fs, 400, "from_rel must start with write dir")
        ELSE Only({
                IF ~sj.ok THEN Outcome(lm.fs, 400, "invalid path")
                ELSE IF ~IsFile(lm.fs, sj.path)
                THEN Outcome(lm.fs, 404, "staged not found")
                ELSE Only({
                        Only({
                            IF ~dj.ok THEN Outcome(lm.fs, 400, "invalid path")
                            ELSE IF IsDir(lm.fs, dj.path)
                            THEN [Outcome(lm.fs, 500, "IsADirectoryError") EXCEPT
                                    !.src = sj.path, !.dst = dj.path]
                            ELSE [Outcome(lm.fs, 200, "") EXCEPT
                                    !.out = to_rel, !.src = sj.path, !.dst = dj.path,
                                    !.a = ReadLines(lm.fs, dj.path),
                                    !.b = ReadLines(lm.fs, sj.path),
                                    !.content =
                                        [diff |-> JoinLines(unified_diff(
                                            ReadLines(lm.fs, dj.path),
                                            ReadLines(lm.fs, sj.path),
                                            to_rel, from_rel))]]
                            : dj \in {_safe_join(lm.fs, lm.m.project_root, to_rel)}})
                        : to_rel \in {IF to_rel_in # "" THEN to_rel_in
                                      ELSE DefaultDest(from_rel, lm.m)}})
                : sj \in {_safe_join(lm.fs, lm.m.project_root, from_rel)}})
        : lm \in {load_manifest(fs, require_approval, project_id)},
          from_rel \in {LStripSep(from_rel_in)}})

(***************************************************************************)
(* /ask and /ask/stream: the agent session.                                *)
(***************************************************************************)
\* ClaudeCodeOptions(cwd=m["_write_dir_abs"], add_dirs=m["_read_dirs_abs"]):
\* the directories the agent client is started with
AgentDirs(m) == <<m.write_dir_abs>> \o m.read_dirs_abs

NoSession == [active |-> FALSE, op |-> "", dirs |-> <<>>]

\* the agent's Write tool: creates or replaces the file, with its parents
WriteFile(fs, p, content) ==
    Only({
        Only({
            IF md.err # "" THEN md
            ELSE IF LExists(md.fs, rp) /\ md.fs[rp].kind # "file"
            THEN FsErr(fs, "IsADirectoryError")
            ELSE FsOk((rp :> FileNode(content)) @@ md.fs)
            : md \in {Makedirs(fs, Dirname(rp))}})
        : rp \in {Realpath(fs, p)}})

(***************************************************************************)
(* The state.                                                              *)
(***************************************************************************)
VARIABLES
    fs,                 \* the filesystem
    REQUIRE_APPROVAL,   \* the process-wide flag, read once from the environment
    session,            \* the running agent session, if any
    writes,             \* the number of writes agents have made
    resp,               \* the response being returned to the client, if any
    history,            \* observer: the last promote or discard of each staged file
    req,                \* what the request being answered holds besides its paths
    clock,              \* the time, in units of the slack of the written-file scan
    mtime,              \* the modification time of each file
    calls               \* the ask and ask/stream calls, step by step

vars == <<fs, REQUIRE_APPROVAL, session, writes, resp, history, req,
          clock, mtime, calls>>

\* the variables of the calls that are followed step by step
asks == <<clock, mtime, calls>>

\* the variables that the approval flow and the browsing leave alone
others == <<history, req, asks>>

Contents == {[lines |-> <<"v" \o ToString(i)>>] : i \in 1..MaxContent}

PROJECT_ID == "demo"
ProjectRoot == PathJoin(PROJECTS_DIR, PROJECT_ID)
OtherRoot == PathJoin(PROJECTS_DIR, "demo2")
READ_DIR == "in"
SIBLING_DIR == "input2"
NESTED_WRITE_DIR == "out/final"

\* the deployments of the model: approval gating with the default write_dir,
\* and no gating with the default write_dir and with a nested one
Deployments ==
    {[approval |-> TRUE, manifest |-> [read_dirs |-> <<READ_DIR>>]],
     [approval |-> FALSE, manifest |-> [read_dirs |-> <<READ_DIR>>]],
     [approval |-> FALSE,
      manifest |-> [read_dirs |-> <<READ_DIR>>, write_dir |-> NESTED_WRITE_DIR]]}

\* the content of the files on disk before the server starts
InitialContent == [lines |-> <<"v0">>]

\* the project tree on disk before the server starts: a read dir with a file
\* and a symbolic link that leaves the project, a sibling directory whose
\* name starts with the read dir's name, and a neighbouring project
InitialTree(manifest) ==
    (SEP :> DirNode)
    @@ (BASE_DIR :> DirNode)
    @@ (PROJECTS_DIR :> DirNode)
    @@ (ProjectRoot :> DirNode)
    @@ (PathJoin(ProjectRoot, MANIFEST_NAME) :> FileNode(manifest))
    @@ (PathJoin(ProjectRoot, READ_DIR) :> DirNode)
    @@ (PathJoin(ProjectRoot, "in/a") :> FileNode(InitialContent))
    @@ (PathJoin(ProjectRoot, "in/lnk") :> LinkNode(OtherRoot))
    @@ (PathJoin(ProjectRoot, SIBLING_DIR) :> DirNode)
    @@ (PathJoin(ProjectRoot, "input2/s") :> FileNode(InitialContent))
    @@ (OtherRoot :> DirNode)
    @@ (PathJoin(OtherRoot, "x") :> FileNode(InitialContent))

\* a request of the project of the model that holds nothing but its paths
NoReq == [project_id |-> PROJECT_ID, q |-> "", limit |-> 0, order |-> "ascending"]

\* the bounds of the calls followed step by step: the calls, the ticks of
\* the clock, the text chunks of a call
MaxCalls == 2
MaxClock == 1
MaxChunks == 1

NoCall ==
    [op |-> "", stage |-> "idle", start_ts |-> 0, m |-> NoManifest, chunks |-> 0,
     events |-> <<>>, status |-> 0, written |-> <<>>, wrote |-> {}]

\* no call has begun; the files on disk were last modified at time 0
NoCalls ==
    /\ clock = 0
    /\ mtime = [p \in {q \in DOMAIN fs : fs[q].kind = "file"} |-> 0]
    /\ calls = [c \in 1..MaxCalls |-> NoCall]

NoResp ==
    [op |-> "none", path |-> "", to_rel |-> "", overwrite |-> FALSE,
     status |-> 0, detail |-> "", out |-> "", content |-> NoContent,
     items |-> <<>>, a |-> <<>>, b |-> <<>>, src |-> "", dst |-> ""]

Init ==
    /\ \E d \in Deployments :
         /\ REQUIRE_APPROVAL = d.approval
         /\ fs = InitialTree(d.manifest)
    /\ session = NoSession
    /\ writes = 0
    /\ resp = NoResp
    /\ history = <<>>
    /\ req = NoReq
    /\ NoCalls

(***************************************************************************)
(* The requests of the model.                                              *)
(***************************************************************************)
\* the manifest as the next request will load it
Manifest == load_manifest(fs, REQUIRE_APPROVAL, PROJECT_ID).m
W == IF REQUIRE_APPROVAL THEN PENDING_DIR
     ELSE IF "write_dir" \in DOMAIN fs[PathJoin(ProjectRoot, MANIFEST_NAME)].content
          THEN fs[PathJoin(ProjectRoot, MANIFEST_NAME)].content.write_dir
          ELSE DEFAULT_WRITE_DIR
F == IF "write_dir" \in DOMAIN fs[PathJoin(ProjectRoot, MANIFEST_NAME)].content
     THEN fs[PathJoin(ProjectRoot, MANIFEST_NAME)].content.write_dir
     ELSE DEFAULT_WRITE_DIR

\* the files an agent writes, relative to a directory it was started with
AgentFiles == {"f", "d/f"}

\* staged-path arguments of promote, discard and diff: staged files, and
\* paths that start with the write dir and leave it
StagedArgs == {W \o "/f", SEP \o W \o "/d/f", W \o "/../" \o F \o "/f"}
EscapeArgs == {W \o "/../in/a"}

\* staged-path arguments that every one of the three refuses
RefusedArgs == {W \o "/zz", W, "in/a", W \o "/../../demo2/x"}

\* to_rel arguments ("" is none)
DestArgs == {"", "in/a", F \o "/f/x"}
RefusedDestArgs == {"../demo2/x"}

\* path arguments of list and preview
BrowseArgs ==
    {"in", "/in/a", "in\\a", "in/lnk/x", "in/..", "input2", "input2/s",
     "../demo2/x", "in/../../demo2", SEP, MANIFEST_NAME,
     W, W \o "/f", F \o "/f"}

\* directories below the read dir: one with an ignored name, one without
NestedArgs == {"in/.git", "in/sub"}

\* queries, limits and scan orders of search
MaxLimit == 2
Queries == {"", "a", "A", "b", "z"}
Limits == (-1 .. MaxLimit) \cup {SEARCH_CAP + 1}
ScanOrders == {"ascending", "descending"}

Respond(op, path, to_rel, overwrite, o) ==
    /\ fs' = o.fs
    /\ resp' = [op |-> op, path |-> path, to_rel |-> to_rel, overwrite |-> overwrite,
                status |-> o.status, detail |-> o.detail, out |-> o.out,
                content |-> o.content, items |-> o.items, a |-> o.a, b |-> o.b,
                src |-> o.src, dst |-> o.dst]
    /\ UNCHANGED <<REQUIRE_APPROVAL, session, writes>>

Idle == resp.op = "none"

ListFs ==
    /\ Idle
    /\ \E path \in BrowseArgs \cup NestedArgs \cup {""} :
         \E o \in {list_fs(fs, REQUIRE_APPROVAL, PROJECT_ID, path)} :
             Respond("list_fs", path, "", FALSE, o)

SearchFiles ==
    /\ Idle
    /\ \E q \in Queries, limit \in Limits, order \in ScanOrders :
         \E o \in {search_files(fs, REQUIRE_APPROVAL, PROJECT_ID, q, limit, order)} :
             /\ Respond("search", q, "", FALSE, o)
             /\ req' = [NoReq EXCEPT !.q = q, !.limit = limit, !.order = order]

GetFile ==
    /\ Idle
    /\ \E path \in BrowseArgs \cup {""} :
         \E o \in {get_file(fs, REQUIRE_APPROVAL, PROJECT_ID, path)} :
             Respond("get_file", path, "", FALSE, o)

\* promote, the operating system failing it at one of the given points
PromoteFileOn(faults) ==
    /\ Idle
    /\ \E from_rel \in StagedArgs \cup EscapeArgs \cup RefusedArgs,
          to_rel \in DestArgs \cup RefusedDestArgs, overwrite \in BOOLEAN,
          fault \in faults :
         /\ from_rel \in RefusedArgs => to_rel = "" /\ overwrite
         /\ from_rel \in EscapeArgs => to_rel = "in/a"
         /\ to_rel \in RefusedDestArgs => from_rel = W \o "/f" /\ overwrite
         /\ \E o \in {promote_file(fs, REQUIRE_APPROVAL, PROJECT_ID,
                                   from_rel, to_rel, overwrite, fault)} :
                Respond("promote", from_rel, to_rel, overwrite, o)

\* promote on an operating system that does not fail
PromoteFile == PromoteFileOn({"none"})

DeleteStaged ==
    /\ Idle
    /\ \E path \in StagedArgs \cup EscapeArgs \cup RefusedArgs :
         \E o \in {delete_staged(fs, REQUIRE_APPROVAL, PROJECT_ID, path)} :
             Respond("discard", path, "", FALSE, o)

GetDiff ==
    /\ Idle
    /\ \E from_rel \in StagedArgs \cup EscapeArgs \cup RefusedArgs,
          to_rel \in {"", "in/a"} :
         /\ from_rel \notin StagedArgs => to_rel = ""
         /\ \E o \in {get_diff(fs, REQUIRE_APPROVAL, PROJECT_ID, from_rel, to_rel)} :
                Respond("diff", from_rel, to_rel, FALSE, o)

\* ask / ask_stream up to the start of the agent client
AskStartOf(project_id) ==
    /\ Idle
    /\ ~session.active
    /\ \E op \in {"ask", "ask_stream"} :
         \E lm \in {load_manifest(fs, REQUIRE_APPROVAL, project_id)} :
             IF lm.status # 200
             THEN /\ Respond(op, "", "", FALSE, Outcome(lm.fs, lm.status, lm.detail))
             ELSE /\ fs' = lm.fs
                  /\ session' = [active |-> TRUE, op |-> op, dirs |-> AgentDirs(lm.m)]
                  /\ UNCHANGED <<REQUIRE_APPROVAL, writes, resp>>

AskStart == AskStartOf(PROJECT_ID)

\* the agent writes a file in one of the directories it was started with
AgentWrite ==
    /\ session.active
    /\ writes < MaxWrites
    /\ \E i \in 1..Len(session.dirs), name \in AgentFiles, c \in Contents :
         \E w \in {WriteFile(fs, PathJoin(session.dirs[i], name), c)} :
             /\ w.err = ""
             /\ fs' = w.fs
    /\ writes' = writes + 1
    /\ UNCHANGED <<REQUIRE_APPROVAL, session, resp>>

\* the agent client ends (normally, or with an exception: 500)
AskEnd ==
    /\ Idle
    /\ session.active
    /\ \E status \in {200, 500} :
         resp' = [NoResp EXCEPT !.op = session.op, !.status = status]
    /\ session' = NoSession
    /\ UNCHANGED <<fs, REQUIRE_APPROVAL, writes>>

\* the project ids of requests: the project of the model, a project
\* without manifest, and ids that the pattern of load_manifest rejects
InvalidIds == {"", "..", "de.mo", "demo/x"}
ProjectIds == {PROJECT_ID, "demo2"} \cup InvalidIds

\* the response of a request that named its project
RespondById(op, project_id, path, o) ==
    /\ Respond(op, path, "", TRUE, o)
    /\ req' = [NoReq EXCEPT !.project_id = project_id, !.q = path]

\* every operation that takes a project id, the id drawn from ProjectIds
GetProject ==
    /\ Idle
    /\ \E id \in ProjectIds :
         \E o \in {get_project(fs, REQUIRE_APPROVAL, id)} :
             RespondById("get_project", id, "", o)

ListFsById ==
    /\ Idle
    /\ \E id \in ProjectIds, path \in {"", "in"} :
         \E o \in {list_fs(fs, REQUIRE_APPROVAL, id, path)} :
             RespondById("list_fs", id, path, o)

SearchFilesById ==
    /\ Idle
    /\ \E id \in ProjectIds, q \in {"", "a"} :
         \E o \in {search_files(fs, REQUIRE_APPROVAL, id, q, MaxLimit, "ascending")} :
             RespondById("search", id, q, o)

GetFileById ==
    /\ Idle
    /\ \E id \in ProjectIds, path \in {"", "in/a"} :
         \E o \in {get_file(fs, REQUIRE_APPROVAL, id, path)} :
             RespondById("get_file", id, path, o)

PromoteFileById ==
    /\ Idle
    /\ \E id \in ProjectIds, from_rel \in {W \o "/f"} :
         \E o \in {promote_file(fs, REQUIRE_APPROVAL, id, from_rel, "", TRUE, "none")} :
             RespondById("promote", id, from_rel, o)

DeleteStagedById ==
    /\ Idle
    /\ \E id \in ProjectIds, path \in {W \o "/f"} :
         \E o \in {delete_staged(fs, REQUIRE_APPROVAL, id, path)} :
             RespondById("discard", id, path, o)

GetDiffById ==
    /\ Idle
    /\ \E id \in ProjectIds, from_rel \in {W \o "/f"} :
         \E o \in {get_diff(fs, REQUIRE_APPROVAL, id, from_rel, "")} :
             RespondById("diff", id, from_rel, o)

AskStartById ==
    \E id \in ProjectIds :
        /\ AskStartOf(id)
        /\ req' = IF resp'.op = "none" THEN req ELSE [NoReq EXCEPT !.project_id = id]

\* the client has its response
Return ==
    /\ ~Idle
    /\ resp' = NoResp
    /\ req' = NoReq
    /\ UNCHANGED <<fs, REQUIRE_APPROVAL, session, writes>>

(***************************************************************************)
(* ask and ask/stream step by step.  A call suspends at every await and    *)
(* yield, so calls interleave with each other and with the other requests. *)
(* The stages of a call: opening (ClaudeSDKClient.__aenter__), querying    *)
(* (client.query), receiving (client.receive_response), closing            *)
(* (ClaudeSDKClient.__aexit__), ended.  The agent client may raise at each *)
(* of the four.  Time is counted in units of 0.5 s.  A response on its way *)
(* to the client changes nothing of the server, so the calls take their    *)
(* steps between the requests of the approval flow; the calls begin in the *)
(* order of their numbers.                                                 *)
(***************************************************************************)
\* the slack of the written-file scan: start_ts - 0.5
SLACK == 1

Calls == 1..MaxCalls

\* an event of the stream
Event(event, data) == [event |-> event, data |-> data]

\* a call yields the events es: they are sent when the call is a stream
Yield(call, es) ==
    IF call.op = "ask_stream" THEN [call EXCEPT !.events = @ \o es] ELSE call

\* the agent client raises: ask raises HTTPException(500), the stream
\* yields error and ends
Raise(call) ==
    [Yield(call, <<Event("error", "")>>) EXCEPT !.stage = "ended", !.status = 500]

\* the files that os.walk(write_dir_abs) finds
WalkFiles(f, write_dir_abs) ==
    {p \in DOMAIN f : f[p].kind = "file" /\ StartsWith(p, write_dir_abs \o SEP)}

\* sorted(set(written)): the files under the write dir modified at or after
\* start_ts - 0.5, relative to the project root
Written(f, times, call) ==
    InOrder({ReplaceBackslash(Relpath(p, call.m.project_root))
             : p \in {q \in WalkFiles(f, call.m.write_dir_abs) :
                         times[q] >= call.start_ts - SLACK}},
            "ascending")

\* no response of a call is on its way to the client
Settled == Idle /\ \A c \in Calls : calls[c].stage # "ended"

\* ask / ask_stream up to the opening of the agent client: the manifest is
\* loaded, start_ts is taken, and the stream yields status open
AskBegin(c) ==
    /\ Settled
    /\ calls[c].stage = "idle"
    /\ \A b \in 1..(c - 1) : calls[b].stage # "idle"
    /\ \E op \in {"ask", "ask_stream"} :
         \E lm \in {load_manifest(fs, REQUIRE_APPROVAL, PROJECT_ID)} :
             /\ fs' = lm.fs
             /\ calls' = [calls EXCEPT ![c] =
                    IF lm.status # 200
                    THEN [NoCall EXCEPT !.op = op, !.stage = "ended",
                                        !.status = lm.status]
                    ELSE Yield([NoCall EXCEPT !.op = op, !.stage = "opening",
                                              !.start_ts = clock, !.m = lm.m],
                               <<Event("status", "open")>>)]
    /\ UNCHANGED <<REQUIRE_APPROVAL, session, writes, resp, history, req, clock, mtime>>

\* the step of call c to call record next
CallStep(c, next) ==
    /\ Settled
    /\ calls' = [calls EXCEPT ![c] = next]
    /\ UNCHANGED <<fs, REQUIRE_APPROVAL, session, writes, resp, history, req,
                   clock, mtime>>

\* the agent client fails call c
Fails(c) == CallStep(c, Raise(calls[c]))

\* async with ClaudeSDKClient(options=options) as client
ClientOpens(c) ==
    /\ calls[c].stage = "opening"
    /\ \/ CallStep(c, Yield([calls[c] EXCEPT !.stage = "querying"],
                            <<Event("status", "query_start")>>))
       \/ Fails(c)

\* await client.query(prompt)
ClientQueries(c) ==
    /\ calls[c].stage = "querying"
    /\ \/ CallStep(c, Yield([calls[c] EXCEPT !.stage = "receiving"],
                            <<Event("status", "generating")>>))
       \/ Fails(c)

\* async for message in client.receive_response(): a message with a text
\* block, or an exception
ClientReceives(c) ==
    /\ calls[c].stage = "receiving"
    /\ \/ /\ calls[c].chunks < MaxChunks
          /\ CallStep(c, Yield([calls[c] EXCEPT !.chunks = @ + 1],
                               <<Event("chunk", "text")>>))
       \/ Fails(c)

\* the agent of call c writes a file in one of the directories it was
\* started with
AgentWrites(c) ==
    /\ Settled
    /\ calls[c].stage = "receiving"
    /\ writes < MaxWrites
    /\ \E i \in 1..Len(AgentDirs(calls[c].m)), name \in AgentFiles, content \in Contents :
         \E w \in {WriteFile(fs, PathJoin(AgentDirs(calls[c].m)[i], name), content)} :
             /\ w.err = ""
             /\ fs' = w.fs
             /\ \E p \in {Realpath(fs, PathJoin(AgentDirs(calls[c].m)[i], name))} :
                    /\ mtime' = (p :> clock) @@ mtime
                    /\ calls' = [calls EXCEPT ![c].wrote = @ \cup {p}]
    /\ writes' = writes + 1
    /\ UNCHANGED <<REQUIRE_APPROVAL, session, resp, history, req, clock>>

\* the response has ended: the write dir is scanned; ask builds its return
\* value, the stream yields a file_written for each file and then done
ScanWritten(c) ==
    /\ calls[c].stage = "receiving"
    /\ \E written \in {Written(fs, mtime, calls[c])} :
         CallStep(c, Yield([calls[c] EXCEPT !.stage = "closing", !.written = written],
                           [i \in 1..Len(written) |->
                               Event("file_written", "@" \o written[i])]
                           \o <<Event("done", "")>>))

\* the end of the async with block: the client is closed, which may raise
ClientCloses(c) ==
    /\ calls[c].stage = "closing"
    /\ \/ CallStep(c, [calls[c] EXCEPT !.stage = "ended", !.status = 200])
       \/ Fails(c)

\* the client has the response of call c
CallReturn(c) ==
    /\ calls[c].stage = "ended"
    /\ calls' = [calls EXCEPT ![c] = [NoCall EXCEPT !.stage = "returned"]]
    /\ UNCHANGED <<fs, REQUIRE_APPROVAL, session, writes, resp, history, req,
                   clock, mtime>>

\* time passes
Tick ==
    /\ Settled
    /\ clock < MaxClock
    /\ clock' = clock + 1
    /\ UNCHANGED <<fs, REQUIRE_APPROVAL, session, writes, resp, history, req,
                   mtime, calls>>

\* the modification times after a request of the approval flow: copy2 gives
\* the destination the time of the source, a removed file has none
Restamp ==
    /\ mtime' = [p \in {q \in DOMAIN fs' : fs'[q].kind = "file"} |->
                    IF resp'.op = "promote" /\ resp'.status = 200 /\ p = resp'.dst
                    THEN mtime[resp'.src]
                    ELSE mtime[p]]
    /\ UNCHANGED <<history, clock, calls>>

\* The observer of SpecLifecycle: when the response of a successful promote
\* or discard is returned, the staged file is noted promoted or discarded.
Observe ==
    history' =
        IF resp.op = "promote" /\ resp.status = 200 /\ resp'.op = "none"
        THEN (resp.src :> "promoted") @@ history
        ELSE IF resp.op = "discard" /\ resp.status = 200 /\ resp'.op = "none"
        THEN (resp.src :> "discarded") @@ history
        ELSE history

\* The approval flow: requests are served one after another, and the
\* approver acts between agent sessions.
Next ==
    \/ ~session.active /\ PromoteFile /\ UNCHANGED others
    \/ ~session.active /\ DeleteStaged /\ UNCHANGED others
    \/ ~session.active /\ GetDiff /\ UNCHANGED others
    \/ AskStart /\ UNCHANGED others
    \/ AgentWrite /\ UNCHANGED others
    \/ AskEnd /\ UNCHANGED others
    \/ Return /\ UNCHANGED <<history, asks>>

Spec == Init /\ [][Next]_vars

\* The approval flow under the observer.
NextLifecycle ==
    \/ ~session.active /\ PromoteFile /\ Observe /\ UNCHANGED <<req, asks>>
    \/ ~session.active /\ DeleteStaged /\ Observe /\ UNCHANGED <<req, asks>>
    \/ AskStart /\ Observe /\ UNCHANGED <<req, asks>>
    \/ AgentWrite /\ Observe /\ UNCHANGED <<req, asks>>
    \/ AskEnd /\ Observe /\ UNCHANGED <<req, asks>>
    \/ Return /\ Observe /\ UNCHANGED asks

SpecLifecycle == Init /\ [][NextLifecycle]_vars

\* Browsing, while agents write.
NextBrowse ==
    \/ ListFs /\ UNCHANGED others
    \/ GetFile /\ UNCHANGED others
    \/ AskStart /\ UNCHANGED others
    \/ AgentWrite /\ UNCHANGED others
    \/ AskEnd /\ UNCHANGED others
    \/ Return /\ UNCHANGED <<history, asks>>

SpecBrowse == Init /\ [][NextBrowse]_vars

(***************************************************************************)
(* Diff of staged files of every content: the server is started on a       *)
(* project in which an agent has staged a file, and in which the final file *)
(* of that name exists or not.                                             *)
(***************************************************************************)
LineAlphabet == {"x", "y"}

\* the files of at most MaxLines lines
DiffContents ==
    {[lines |-> l] : l \in UNION {[1..n -> LineAlphabet] : n \in 0..MaxLines}}

\* write_dir_rel and final_write_rel of a deployment
DeployedF(d) ==
    IF "write_dir" \in DOMAIN d.manifest THEN d.manifest.write_dir
    ELSE DEFAULT_WRITE_DIR
DeployedW(d) == IF d.approval THEN PENDING_DIR ELSE DeployedF(d)

\* the tree of deployment d with the staged file f, and the final file f if any
StagedTree(d, staged, final) ==
    Only({
        IF final = {} \/ ~d.approval THEN t
        ELSE WriteFile(t, PathJoin(ProjectRoot, DeployedF(d) \o "/f"),
                       Only(final)).fs
        : t \in {WriteFile(InitialTree(d.manifest),
                           PathJoin(ProjectRoot, DeployedW(d) \o "/f"),
                           staged).fs}})

InitDiff ==
    /\ \E d \in Deployments, staged \in DiffContents,
          final \in {{}} \cup {{c} : c \in DiffContents} :
         /\ REQUIRE_APPROVAL = d.approval
         /\ fs = StagedTree(d, staged, final)
    /\ session = NoSession
    /\ writes = 0
    /\ resp = NoResp
    /\ history = <<>>
    /\ req = NoReq
    /\ NoCalls

NextDiff ==
    \/ GetDiff /\ UNCHANGED others
    \/ Return /\ UNCHANGED <<history, asks>>

SpecDiff == InitDiff /\ [][NextDiff]_vars

(***************************************************************************)
(* Listing and search over trees that hold ignored names.                  *)
(***************************************************************************)
\* what a tree may hold besides the initial tree: a version-control
\* directory and a dependency directory with a file each, a plain directory
\* with a file, a dot file, and a file under the write dir
TreeExtras(d) ==
    {<<"in/.git/ab">>, <<"in/node_modules/a">>, <<"in/sub/Ab">>, <<"in/.cache">>,
     <<DeployedW(d) \o "/ba">>}

RECURSIVE WithFiles(_, _)
WithFiles(tree, rels) ==
    IF rels = {} THEN tree
    ELSE Only({ WithFiles(WriteFile(tree, PathJoin(ProjectRoot, r[1]),
                                    InitialContent).fs, rels \ {r})
                : r \in {CHOOSE x \in rels : TRUE}})

InitSearch ==
    /\ \E d \in Deployments :
         \E extras \in SUBSET TreeExtras(d) :
             /\ REQUIRE_APPROVAL = d.approval
             /\ fs = WithFiles(InitialTree(d.manifest), extras)
    /\ session = NoSession
    /\ writes = 0
    /\ resp = NoResp
    /\ history = <<>>
    /\ req = NoReq
    /\ NoCalls

NextSearch ==
    \/ ListFs /\ UNCHANGED others
    \/ SearchFiles /\ UNCHANGED <<history, asks>>
    \/ Return /\ UNCHANGED <<history, asks>>

SpecSearch == InitSearch /\ [][NextSearch]_vars

(***************************************************************************)
(* The operations that take a project id, for any id.                      *)
(***************************************************************************)
NextById ==
    \/ GetProject /\ UNCHANGED <<history, asks>>
    \/ ListFsById /\ UNCHANGED <<history, asks>>
    \/ SearchFilesById /\ UNCHANGED <<history, asks>>
    \/ GetFileById /\ UNCHANGED <<history, asks>>
    \/ ~session.active /\ PromoteFileById /\ UNCHANGED <<history, asks>>
    \/ ~session.active /\ DeleteStagedById /\ UNCHANGED <<history, asks>>
    \/ ~session.active /\ GetDiffById /\ UNCHANGED <<history, asks>>
    \/ AskStartById /\ UNCHANGED <<history, asks>>
    \/ AgentWrite /\ UNCHANGED others
    \/ AskEnd /\ UNCHANGED others
    \/ Return /\ UNCHANGED <<history, asks>>

SpecById == Init /\ [][NextById]_vars

(***************************************************************************)
(* The approval flow on an operating system that may fail a promote.       *)
(***************************************************************************)
NextFault ==
    \/ ~session.active /\ PromoteFileOn(Faults) /\ UNCHANGED others
    \/ AskStart /\ UNCHANGED others
    \/ AgentWrite /\ UNCHANGED others
    \/ AskEnd /\ UNCHANGED others
    \/ Return /\ UNCHANGED <<history, asks>>

SpecFault == Init /\ [][NextFault]_vars

(***************************************************************************)
(* Concurrent ask and ask/stream calls beside promote and discard.         *)
(***************************************************************************)
NextAsk ==
    \/ \E c \in Calls : AskBegin(c)
    \/ \E c \in Calls : ClientOpens(c)
    \/ \E c \in Calls : ClientQueries(c)
    \/ \E c \in Calls : ClientReceives(c)
    \/ \E c \in Calls : AgentWrites(c)
    \/ \E c \in Calls : ScanWritten(c)
    \/ \E c \in Calls : ClientCloses(c)
    \/ \E c \in Calls : CallReturn(c)
    \/ Tick
    \/ Settled /\ PromoteFileById /\ req'.project_id = PROJECT_ID /\ Restamp
    \/ Settled /\ DeleteStagedById /\ req'.project_id = PROJECT_ID /\ Restamp
    \/ Return /\ UNCHANGED <<history, asks>>

SpecAsk == Init /\ [][NextAsk]_vars

(***************************************************************************)
(* Properties.                                                             *)
(***************************************************************************)
\* the names along a path, the empty ones left out
Components(p) == SelectSeq(SplitSep(p), LAMBDA c : c # "")

\* location p is the directory root or lies below it, name by name
Under(p, root) ==
    /\ Len(Components(root)) <= Len(Components(p))
    /\ SubSeq(Components(p), 1, Len(Components(root))) = Components(root)

WriteRootAbs == PathJoin(ProjectRoot, W)
FinalRootAbs == PathJoin(ProjectRoot, F)
ReadRootsAbs == {PathJoin(ProjectRoot, READ_DIR)}
AllowedRoots == ReadRootsAbs \cup {WriteRootAbs}

\* the location a path argument denotes in filesystem f: leading separators
\* stripped, backslashes read as separators, joined with the project root,
\* links and ".." resolved
Denoted(f, path) ==
    Realpath(f, PathJoin(ProjectRoot, ReplaceBackslash(LStripSep(path))))

\* the same, a backslash being an ordinary character of a name
DenotedLiteral(f, path) == Realpath(f, PathJoin(ProjectRoot, LStripSep(path)))

\* a list or preview request with a path has been answered
Browsed == resp.op \in {"list_fs", "get_file"} /\ resp.path # ""

\* the answer to a list or preview request whose path denotes loc
BrowseRule(loc) ==
    /\ ~Under(loc, ProjectRoot) =>
            resp.status = 400 /\ resp.detail = "invalid path"
    /\ Under(loc, ProjectRoot) /\ ~(\E r \in AllowedRoots : Under(loc, r)) =>
            resp.status = 403
    /\ resp.status = 200 =>
            resp.src = loc /\ \E r \in AllowedRoots : Under(loc, r)

\* C1 (as amended): for a list or preview request with a non-empty path on a
\* project whose manifest loads, the path (leading separators stripped, every
\* backslash converted to a separator, joined with the project root, links
\* and ".." resolved) that is not the project root or below it is answered
\* 400 "invalid path"; one inside the project root but not equal to or below
\* a read dir or the effective write dir is answered 403; a listing or a
\* content is returned only for the denoted location and only when it is in
\* an allowed root, the sibling input2 of root in not being one.
C1_BrowseConfined == Browsed => BrowseRule(Denoted(fs, resp.path))

\* C1 as stated: the same rule for the path with leading separators stripped,
\* joined and resolved, nothing said of backslashes.
C1_BrowseConfinedAsStated == Browsed => BrowseRule(DenotedLiteral(fs, resp.path))

\* C1's case: the preview of a file of the sibling input2 has been refused
C1_SiblingRefused ==
    resp.op = "get_file" /\ resp.path = "input2/s" /\ resp.status = 403

\* a promote, discard or diff request has been answered
StagedOp == resp.op \in {"promote", "discard", "diff"}

\* C2: a promote, discard or diff whose staged path denotes a location that
\* is not under the effective write root is answered 400 and has read, copied
\* or deleted no file.
C2_StagedPathConfined ==
    StagedOp /\ ~Under(Denoted(fs, resp.path), WriteRootAbs) =>
        resp.status = 400 /\ resp.src = ""

\* the files and directories of f in the final root or in a read dir
Protected(f) ==
    {p \in DOMAIN f : Under(p, FinalRootAbs) \/ \E r \in ReadRootsAbs : Under(p, r)}

\* C3: with approval gating, a discard request, whatever its path and its
\* answer, leaves every file under the final root and under the read dirs
\* present and unchanged, and removes at most the one file under the
\* effective write root that the request names.
C3_DiscardFrame ==
    [][REQUIRE_APPROVAL /\ resp.op = "none" /\ resp'.op = "discard" =>
        /\ \A p \in Protected(fs) : p \in DOMAIN fs' /\ fs'[p] = fs[p]
        /\ \A p \in DOMAIN fs \ DOMAIN fs' :
              /\ Under(p, WriteRootAbs)
              /\ p = Denoted(fs, resp'.path)
              /\ fs[p].kind = "file"]_vars

\* the files a step writes: those new or different after it
WrittenFiles ==
    {p \in DOMAIN fs' : fs'[p].kind = "file" /\ (p \notin DOMAIN fs \/ fs'[p] # fs[p])}

\* C4: a promote writes no file outside the final root, not in a read dir,
\* the pending dir or elsewhere in the project; a successful one writes one
\* file, under the final root, whether the destination is the default one or
\* the to_rel of the request.
C4_PromoteWritesFinal ==
    [][resp.op = "none" /\ resp'.op = "promote" =>
        /\ \A p \in WrittenFiles : Under(p, FinalRootAbs)
        /\ Cardinality(WrittenFiles) <= 1
        /\ resp'.status = 200 =>
              \E p \in DOMAIN fs' :
                  /\ Under(p, FinalRootAbs)
                  /\ fs'[p] = FileNode(fs[resp'.src].content)]_vars

\* C5: a promote with overwrite = false whose destination exists is answered
\* 409, and leaves the destination and the staged source as they were and no
\* new file or directory in the final tree.
C5_ConflictFrame ==
    [][/\ resp.op = "none" /\ resp'.op = "promote" /\ ~resp'.overwrite
       /\ resp'.dst # "" /\ Exists(fs, resp'.dst)
       =>
        /\ resp'.status = 409
        /\ fs'[resp'.dst] = fs[resp'.dst]
        /\ fs'[resp'.src] = fs[resp'.src]
        /\ \A p \in DOMAIN fs' \ DOMAIN fs : ~Under(p, FinalRootAbs)]_vars

\* the suffix s of a staged path W/s
StagedRest(path) ==
    SubSeq(LStripSep(path), Len(W) + 2, Len(LStripSep(path)))

\* the final path F/s of the staged path W/s, in filesystem f
CorrespondingFinal(f, path) ==
    Realpath(f, PathJoin(FinalRootAbs, StagedRest(path)))

\* C6: when a staged file P under the effective write root holds C and
\* promote(P, overwrite = true) without to_rel succeeds, the corresponding
\* final path is a file that holds C and P still holds C; this for every
\* such promote, a repeated one included.
C6_RoundTrip ==
    [][/\ resp.op = "none" /\ resp'.op = "promote" /\ resp'.status = 200
       /\ resp'.overwrite /\ resp'.to_rel = ""
       /\ Under(Denoted(fs, resp'.path), WriteRootAbs)
       =>
        /\ CorrespondingFinal(fs, resp'.path) \in DOMAIN fs'
        /\ fs'[CorrespondingFinal(fs, resp'.path)] = fs[Denoted(fs, resp'.path)]
        /\ fs'[Denoted(fs, resp'.path)] = fs[Denoted(fs, resp'.path)]]_vars

\* a promote (a discard) of staged file p succeeds in this step
Promotes(p) ==
    resp.op = "none" /\ resp'.op = "promote" /\ resp'.status = 200 /\ resp'.src = p
Discards(p) ==
    resp.op = "none" /\ resp'.op = "discard" /\ resp'.status = 200 /\ resp'.src = p

C8_PromoteOutcomes ==
    resp.op = "promote" =>
        /\ resp.status \in {200, 400, 404, 409}
        /\ resp.status = 200 => resp.out # "" /\ resp.dst = Denoted(fs, resp.out)

\* C9: for a staged path W/s, W the effective write dir of one or several
\* names, a promote and a diff without to_rel use the destination F/s, F the
\* final dir, and so the same one.
C9_DefaultDestination ==
    /\ resp.op \in {"promote", "diff"} /\ resp.to_rel = "" /\ resp.dst # ""
    /\ StartsWith(LStripSep(resp.path), W \o SEP)
    => resp.dst = CorrespondingFinal(fs, resp.path)

\* C10: with approval gating, the directories an agent session is started
\* with never include the final root or a read dir, and no write of an agent
\* creates, changes or removes a file under the final root or a read dir.
C10_AgentConfined ==
    [][REQUIRE_APPROVAL =>
        /\ session'.active =>
              \A i \in 1..Len(session'.dirs) :
                  /\ ~Under(session'.dirs[i], FinalRootAbs)
                  /\ \A r \in ReadRootsAbs : ~Under(session'.dirs[i], r)
        /\ writes' # writes =>
              /\ \A p \in Protected(fs) : p \in DOMAIN fs' /\ fs'[p] = fs[p]
              /\ \A p \in DOMAIN fs' \ DOMAIN fs :
                    ~Under(p, FinalRootAbs) /\ \A r \in ReadRootsAbs : ~Under(p, r)]_vars

\* the lines of a text: text.split("\n")
RECURSIVE SplitNL(_)
SplitNL(text) ==
    IF \E i \in 1..Len(text) : SubSeq(text, i, i) = NL
    THEN LET i == CHOOSE k \in 1..Len(text) :
                    /\ SubSeq(text, k, k) = NL
                    /\ \A h \in 1..(k - 1) : SubSeq(text, h, h) # NL
         IN  <<SubSeq(text, 1, i - 1)>> \o SplitNL(SubSeq(text, i + 1, Len(text)))
    ELSE <<text>>

\* the destination a diff request compares with: to_rel, or the default one
DiffDestination ==
    IF resp.to_rel # "" THEN resp.to_rel
    ELSE DefaultDest(LStripSep(resp.path), Manifest)

\* a diff has been asked of a staged file of one line or more whose
\* destination does not exist
DiffOfNewFile ==
    /\ resp.op = "diff"
    /\ StartsWith(LStripSep(resp.path), W \o SEP)
    /\ IsFile(fs, Denoted(fs, resp.path))
    /\ Len(ContentLines(fs[Denoted(fs, resp.path)].content)) >= 1
    /\ Under(Denoted(fs, DiffDestination), ProjectRoot)
    /\ ~Exists(fs, Denoted(fs, DiffDestination))

\* C11: the diff of a staged file of lines L1..Ln, n >= 1, whose destination
\* does not exist succeeds, and its text is the header "--- <destination>",
\* the header "+++ <staged path>", one hunk header, and then the n lines
\* "+L1" .. "+Ln" in this order and nothing else: every staged line is added
\* once and no line is removed.
C11_DiffOfNewFile ==
    DiffOfNewFile =>
        /\ resp.status = 200
        /\ LET text == SplitNL(resp.content.diff)
               staged == ContentLines(fs[Denoted(fs, resp.path)].content)
           IN  /\ Len(text) = 3 + Len(staged)
               /\ text[1] = "--- " \o DiffDestination
               /\ text[2] = "+++ " \o LStripSep(resp.path)
               /\ StartsWith(text[3], "@@ -0,0 +1")
               /\ \A i \in 1..Len(staged) : text[3 + i] = "+" \o staged[i]

\* C11's case: the diff of a staged file of MaxLines lines without a final
\* file has been returned
C11_NewFileDiffed ==
    /\ REQUIRE_APPROVAL
    /\ DiffOfNewFile
    /\ resp.status = 200
    /\ resp.a = <<>>
    /\ Len(resp.b) = MaxLines

\* the response lists entries: a listing or a search that succeeded
Listing == resp.op \in {"list_fs", "search"} /\ resp.status = 200

\* the location of a returned entry
ItemLocation(it) ==
    IF resp.op = "list_fs" /\ resp.path # "" THEN PathJoin(resp.src, it.name)
    ELSE PathJoin(ProjectRoot, it.rel)

\* the names along the way from the project root to location p
NamesTo(p) == Components(Relpath(p, ProjectRoot))

\* C12: no entry returned by a listing (of a directory or of the roots) or by
\* a search has a name of the ignore set or a name that starts with a dot,
\* and no returned entry lies inside a directory with such a name.
C12_IgnoredNeverReturned ==
    Listing =>
        \A i \in 1..Len(resp.items) :
            /\ ~Ignored(resp.items[i].name)
            /\ \A k \in 1..Len(NamesTo(ItemLocation(resp.items[i]))) :
                   ~Ignored(NamesTo(ItemLocation(resp.items[i]))[k])

\* the entries a search can return: those below an allowed root with no
\* ignored name from the root on (no entry of the model lies behind a link)
Visible ==
    {p \in DOMAIN fs :
        \E root \in AllowedRoots :
            /\ StartsWith(p, root \o SEP)
            /\ \A k \in 1..Len(Components(Relpath(p, root))) :
                   ~Ignored(Components(Relpath(p, root))[k])}

\* the visible entries whose name contains query q, letter case apart
Matching(q) == {p \in Visible : Contains(Lower(Basename(p)), Lower(q))}

\* the cap in words: limit, and 1 below 1, and 1000 above 1000
ClaimedCap(limit) == IF limit < 1 THEN 1 ELSE IF limit > 1000 THEN 1000 ELSE limit

Searched == resp.op = "search" /\ resp.status = 200

SearchCapRule ==
    /\ Len(resp.items) <= ClaimedCap(req.limit)
    /\ Cardinality(Matching(req.q)) >= ClaimedCap(req.limit)
           => Len(resp.items) = ClaimedCap(req.limit)
    /\ Len(resp.items) = ClaimedCap(req.limit)
           => /\ resp.a # <<>>
              /\ resp.a[Len(resp.a)] =
                     PathJoin(ProjectRoot, resp.items[Len(resp.items)].rel)
    /\ \A i \in 1..Len(resp.items) :
           /\ PathJoin(ProjectRoot, resp.items[i].rel) \in Matching(req.q)
           /\ resp.items[i].name = Basename(resp.items[i].rel)

\* C13: a search for a non-empty query returns at most max(1, min(limit,
\* 1000)) matches, exactly that many whenever at least that many visible
\* names contain the query, examines no entry after the match that reaches
\* the cap, and returns only visible entries that match the query.
C13_SearchCap == Searched /\ req.q # "" => SearchCapRule

\* C13 as stated, the empty query included
C13_SearchCapAsStated == Searched => SearchCapRule

\* a search that the cap cut short: more entries match than were returned
C13_CapReached ==
    /\ Searched
    /\ Len(resp.items) > 1
    /\ Len(resp.items) = ClaimedCap(req.limit)
    /\ Cardinality(Matching(req.q)) > Len(resp.items)

\* a request with an id that does not match [A-Za-z0-9_-]+ is answered
Refusing == Idle /\ resp'.op # "none" /\ req'.project_id \in InvalidIds

\* C14: every operation that takes a project id (get project, list, search,
\* preview, ask, ask/stream, promote, discard, diff) answers an id that does
\* not match [A-Za-z0-9_-]+ with the invalid-identifier client error, and
\* leaves the filesystem as it was.
C14_ProjectIdGate ==
    [][Refusing =>
          /\ resp'.status = 400
          /\ resp'.detail = "invalid project_id"
          /\ fs' = fs]_vars

\* get project answers with the manifest it has just loaded
Loading == Idle /\ resp'.op = "get_project" /\ resp'.status = 200

\* the write root that the answer of get project names
LoadedWriteRoot(r, q) ==
    PathJoin(PathJoin(PROJECTS_DIR, q.project_id), r.content.write_dir)

\* C15: loading the manifest is idempotent.  A load after a load that
\* succeeded does not fail, yields the same roots and changes nothing, and
\* all that a load changes of the filesystem is that the effective write
\* root directory, with the directories above it, comes to exist.
C15_LoadIdempotent ==
    [][Loading =>
          /\ \E second \in {load_manifest(fs', REQUIRE_APPROVAL, req'.project_id)} :
                 /\ second.status = 200
                 /\ second.fs = fs'
                 /\ second.m.read_dirs_rel = resp'.content.read_dirs
                 /\ second.m.write_dir_rel = resp'.content.write_dir
                 /\ second.m.final_write_rel = resp'.content.final_write_dir
                 /\ second.m.write_dir_abs = LoadedWriteRoot(resp', req')
          /\ \A p \in DOMAIN fs : p \in DOMAIN fs' /\ fs'[p] = fs[p]
          /\ \A p \in DOMAIN fs' \ DOMAIN fs :
                 /\ fs'[p] = DirNode
                 /\ Under(LoadedWriteRoot(resp', req'), p)
          /\ IsDir(fs', LoadedWriteRoot(resp', req'))]_vars

\* a load has created the nested write root and the directory above it
C15_NestedRootCreated ==
    /\ resp.op = "get_project"
    /\ resp.status = 200
    /\ resp.content.write_dir = NESTED_WRITE_DIR
    /\ IsDir(fs, PathJoin(ProjectRoot, NESTED_WRITE_DIR))

\* a promote ends in an error
PromoteFails == Idle /\ resp'.op = "promote" /\ resp'.status # 200

\* C16: a promote that ends in an error (bad request, not found, conflict,
\* a failure while the parent directories are created or while the file is
\* copied) leaves the staged source, when there was one, in place with its
\* content.
C16_SourceKept ==
    [][PromoteFails =>
          \A source \in {Denoted(fs, resp'.path)} :
              IsFile(fs, source) =>
                  source \in DOMAIN fs' /\ fs'[source] = fs[source]]_vars

\* a copy was interrupted: the promote failed with OSError, the destination
\* holds no data and the staged source holds its content
C16_CopyInterrupted ==
    /\ resp.op = "promote"
    /\ resp.status = 500
    /\ resp.detail = "OSError"
    /\ resp.dst \in DOMAIN fs
    /\ fs[resp.dst] = FileNode([lines |-> <<>>])
    /\ resp.src \in DOMAIN fs
    /\ fs[resp.src].kind = "file"
    /\ fs[resp.src].content \in Contents
    /\ Under(resp.src, WriteRootAbs)

\* call c scans its write dir for the files written
Scans(c) == calls[c].stage = "receiving" /\ calls'[c].stage = "closing"

\* the files that call c reports as written
Reported(c) ==
    {PathJoin(ProjectRoot, calls'[c].written[i]) : i \in 1..Len(calls'[c].written)}

\* C17: the files that an ask or ask/stream call reports as written are
\* the files under the effective write root that its own agent wrote during
\* the call: no file last written before the call began, no file that only
\* another call wrote, and every file it wrote that is there at the scan;
\* this with other calls, promotes and discards in between.
C17_WrittenReport ==
    [][\A c \in Calls :
          Scans(c) =>
              /\ Reported(c) \subseteq calls[c].wrote
              /\ \A p \in calls[c].wrote :
                     p \in WalkFiles(fs, calls[c].m.write_dir_abs) => p \in Reported(c)]_vars

\* done and error end a stream
Terminal(e) == e.event \in {"done", "error"}

\* the order of the events ev of a stream
Ordered(ev) ==
    /\ ev # <<>> => ev[1] = Event("status", "open")
    /\ \A i \in 1..Len(ev), j \in 1..Len(ev) :
          /\ ev[i] = Event("status", "generating") /\ ev[j] = Event("status", "query_start")
                => j < i
          /\ ev[i].event = "chunk" /\ ev[j] = Event("status", "generating") => j < i
          /\ ev[i].event = "file_written" /\ ev[j].event = "chunk" => j < i
          /\ ev[i].event = "file_written" /\ ev[j].event = "done" => i < j
    /\ \A i \in 1..Len(ev) :
          /\ ev[i] = Event("status", "generating")
                => \E j \in 1..(i - 1) : ev[j] = Event("status", "query_start")
          /\ ev[i].event = "chunk"
                => \E j \in 1..(i - 1) : ev[j] = Event("status", "generating")
          /\ Terminal(ev[i]) => i = Len(ev)

\* C18: in every ask/stream response the first event is status open,
\* query_start precedes generating, generating precedes every chunk, every
\* file_written comes after all chunks and before done, and the stream has
\* ended with one terminal event, done or error, that nothing follows,
\* wherever the agent client fails.
C18_EventOrder ==
    \A c \in Calls :
        calls[c].op = "ask_stream" =>
            /\ Ordered(calls[c].events)
            /\ calls[c].stage = "ended" =>
                   Terminal(calls[c].events[Len(calls[c].events)])
====
